---- MODULE Spec2Model ----
(***************************************************************************)
(* G27 LED Bridge: the bridge supervisor (worker thread of run, with       *)
(* connect_and_bridge and read_telemetry_and_update inlined at their call  *)
(* sites), the foreground event loop and the tray menu handler.            *)
(*                                                                         *)
(* Time is counted in ticks of 100 ms.  Only the worker's sleeps let time  *)
(* pass; every other step is instantaneous, so an elapsed tick count is a  *)
(* lower bound of the real elapsed time.  A sleep call is one step: the    *)
(* worker is at the sleep's position while it lasts and the ticks are      *)
(* counted when it returns.                                                *)
(*                                                                         *)
(* The worker is followed until it leaves its loop or the process calls    *)
(* exit(1).  The texts of the tray menu and the flag that triggers their   *)
(* refresh are display state and are not part of the model; the LED        *)
(* driver is represented by the outcome of its update call.                *)
(***************************************************************************)
EXTENDS Integers, Sequences, FiniteSets, TLC

----------------------------------------------------------------------------
(* Program constants *)

\* for _ in 0..50 { ...; sleep(100 ms) }  (main.rs:316)
BackoffTicks == 50

\* sleep(Duration::from_secs(5)) between two enumerations (main.rs:152)
DiscoverySleepTicks == 50

\* "G27 connection lost - retrying in 2 seconds..." (main.rs:310)
DeviceLostAnnouncedTicks == 20

\* "UDP Socket Error - retrying in 5 seconds..." (main.rs:306)
SocketErrorAnnouncedTicks == 50

\* GameType::default_port (telemetry.rs:106-111)
DirtRally2Port == 20777
ForzaHorizon5Port == 9999

----------------------------------------------------------------------------
(* Bounds of the model *)

\* the device enumerations are counted up to this number
MaxDiscoveries == 2

\* the ticks slept after the exit flag was raised are counted up to this
MaxAfter == 3

\* the ticks slept since the last reported failure are counted up to this
ClockCap == 51

----------------------------------------------------------------------------
(* Types *)

GameType == {"DirtRally2", "ForzaHorizon5"}

\* the ports a settings file or --port names here: the two defaults
Ports == {DirtRally2Port, ForzaHorizon5Port}

DR2G27Error == {"DR2UdpSocketError", "G27ConnectionLostError"}

default_port(g) == IF g = "DirtRally2" THEN DirtRally2Port ELSE ForzaHorizon5Port

Min(a, b) == IF a < b THEN a ELSE b

\* impl From<std::io::Error> for DR2G27Error: the conversion `e.into()`
\* applies to the io::Error of UdpSocket::bind and of socket.recv alike
FromIoError == "DR2UdpSocketError"

\* impl From<HidError> for DR2G27Error: the conversion `?` applies to
\* HidApi::new, refresh_devices and the LED driver's device write
FromHidError == "G27ConnectionLostError"

\* AppSettings::set_game_type, without the save to the settings file
set_game_type(s, g) ==
    LET s1 == [s EXCEPT !.game_type = g]
    IN  IF s1.port = default_port(s1.game_type)
        THEN [s1 EXCEPT !.port = default_port(g)]
        ELSE s1

----
(* Telemetry decoding (telemetry.rs) *)

\* A datagram: its length in bytes and the four bytes found at each offset a
\* decoder may look at; every other byte is zero.
FieldOffsets == {0, 8, 12, 16, 148, 252, 256}

ZeroWord == <<0, 0, 0, 0>>

\* &data[a..a + 4]
Slice(data, a) == IF a \in DOMAIN data.words THEN data.words[a] ELSE ZeroWord

\* telemetry.rs:22-25, f32::from_le_bytes: the last byte holds the sign and the
\* high exponent bits; the value is kept as its sign, exponent and fraction
f32_from_byte_slice(w) ==
    [sign |-> w[4] \div 128,
     exp  |-> (w[4] % 128) * 2 + (w[3] \div 128),
     frac |-> (w[3] % 128) * 65536 + w[2] * 256 + w[1]]

\* variant: the bytes are taken in big-endian order
i32_from_byte_slice_BigEndian(w) ==
    w[4] + 256 * w[3] + 65536 * w[2]
         + 16777216 * (IF w[1] >= 128 THEN w[1] - 256 ELSE w[1])

\* telemetry.rs:27-30, i32::from_le_bytes (two's complement)
i32_from_byte_slice(w) ==
    w[1] + 256 * w[2] + 65536 * w[3]
         + 16777216 * (IF w[4] >= 128 THEN w[4] - 256 ELSE w[4])

\* the f32 literal 0.0
F32Zero == [sign |-> 0, exp |-> 0, frac |-> 0]

IsNaN(x) == x.exp = 255 /\ x.frac # 0

IsZero(x) == x.exp = 0 /\ x.frac = 0

\* x == y on f32: a NaN equals nothing, 0.0 equals -0.0
F32Eq(x, y) == ~IsNaN(x) /\ ~IsNaN(y) /\ (x = y \/ (IsZero(x) /\ IsZero(y)))

\* x > 0.0 on f32
F32Gt0(x) == ~IsNaN(x) /\ x.sign = 0 /\ ~IsZero(x)

\* x >= 0.0 on f32
F32Ge0(x) == ~IsNaN(x) /\ (x.sign = 0 \/ IsZero(x))

\* telemetry.rs:51-53, 83-85
expected_packet_size(g) == IF g = "DirtRally2" THEN 264 ELSE 232

\* (0.0, 0.0, 0.0, false)
Sentinel ==
    [current |-> F32Zero, max |-> F32Zero, idle |-> F32Zero,
     is_race_active |-> FALSE]

\* the outcome of one call of parse_rpm_data: the tuple returned, the offsets
\* of the slices taken, and whether a slice reached past the end of the buffer
\* (a panic)
Outcome(reading, reads, data) ==
    [reading |-> reading, reads |-> reads,
     panic |-> \E a \in reads : a + 4 > data.len]

\* variant: max RPM and idle RPM are taken from each other's bytes
DirtRally2Parser_parse_rpm_data_Swapped(data) ==
    IF data.len < expected_packet_size("DirtRally2")
    THEN Outcome(Sentinel, {}, data)
    ELSE LET current_rpm == f32_from_byte_slice(Slice(data, 148))
             max_rpm     == f32_from_byte_slice(Slice(data, 256))
             idle_rpm    == f32_from_byte_slice(Slice(data, 252))
         IN  Outcome([current |-> current_rpm, max |-> max_rpm,
                      idle |-> idle_rpm,
                      is_race_active |-> F32Gt0(max_rpm) /\ F32Ge0(current_rpm)],
                     {148, 252, 256}, data)

\* telemetry.rs:35-49
DirtRally2Parser_parse_rpm_data(data) ==
    IF data.len < expected_packet_size("DirtRally2")
    THEN Outcome(Sentinel, {}, data)
    ELSE LET current_rpm == f32_from_byte_slice(Slice(data, 148))
             max_rpm     == f32_from_byte_slice(Slice(data, 252))
             idle_rpm    == f32_from_byte_slice(Slice(data, 256))
         IN  Outcome([current |-> current_rpm, max |-> max_rpm,
                      idle |-> idle_rpm,
                      is_race_active |-> F32Gt0(max_rpm) /\ F32Ge0(current_rpm)],
                     {148, 252, 256}, data)

\* variant: each RPM field is taken from the bytes of the next one
ForzaHorizon5Parser_parse_rpm_data_Rotated(data) ==
    IF data.len < expected_packet_size("ForzaHorizon5")
    THEN Outcome(Sentinel, {}, data)
    ELSE LET is_race_on == i32_from_byte_slice(Slice(data, 0)) = 1
         IN  IF ~is_race_on
             THEN Outcome(Sentinel, {0}, data)
             ELSE LET max_rpm     == f32_from_byte_slice(Slice(data, 12))
                      idle_rpm    == f32_from_byte_slice(Slice(data, 16))
                      current_rpm == f32_from_byte_slice(Slice(data, 8))
                  IN  Outcome([current |-> current_rpm, max |-> max_rpm,
                               idle |-> idle_rpm, is_race_active |-> is_race_on],
                              {0, 8, 12, 16}, data)

\* variant: the length of the buffer is not looked at
ForzaHorizon5Parser_parse_rpm_data_NoGuard(data) ==
    LET is_race_on == i32_from_byte_slice(Slice(data, 0)) = 1
    IN  IF ~is_race_on
        THEN Outcome(Sentinel, {0}, data)
        ELSE LET max_rpm     == f32_from_byte_slice(Slice(data, 8))
                 idle_rpm    == f32_from_byte_slice(Slice(data, 12))
                 current_rpm == f32_from_byte_slice(Slice(data, 16))
             IN  Outcome([current |-> current_rpm, max |-> max_rpm,
                          idle |-> idle_rpm, is_race_active |-> is_race_on],
                         {0, 8, 12, 16}, data)

\* telemetry.rs:63-81
ForzaHorizon5Parser_parse_rpm_data(data) ==
    IF data.len < expected_packet_size("ForzaHorizon5")
    THEN Outcome(Sentinel, {}, data)
    ELSE LET is_race_on == i32_from_byte_slice(Slice(data, 0)) = 1
         IN  IF ~is_race_on
             THEN Outcome(Sentinel, {0}, data)
             ELSE LET max_rpm     == f32_from_byte_slice(Slice(data, 8))
                      idle_rpm    == f32_from_byte_slice(Slice(data, 12))
                      current_rpm == f32_from_byte_slice(Slice(data, 16))
                  IN  Outcome([current |-> current_rpm, max |-> max_rpm,
                               idle |-> idle_rpm, is_race_active |-> is_race_on],
                              {0, 8, 12, 16}, data)

\* telemetry.rs:99-104: the parser of the game, then its parse_rpm_data
parse_rpm_data(g, data) ==
    IF g = "DirtRally2"
    THEN DirtRally2Parser_parse_rpm_data(data)
    ELSE ForzaHorizon5Parser_parse_rpm_data(data)

----
(* The reading tracker (rpm.rs) *)

STALENESS_THRESHOLD == 5

\* rpm.rs:15-19, RPM::new: the derived default
NewRPM ==
    [current |-> F32Zero, max |-> F32Zero, idle |-> F32Zero,
     staleness |-> 0, is_race_active |-> FALSE]

\* variant: the counter is incremented without a look at the threshold
increment_staleness_NoClamp(r) == [r EXCEPT !.staleness = @ + 1]

\* rpm.rs:21-25
increment_staleness(r) ==
    IF r.staleness < STALENESS_THRESHOLD
    THEN [r EXCEPT !.staleness = @ + 1]
    ELSE r

\* rpm.rs:27-31
reset_staleness(r) == IF r.staleness # 0 THEN [r EXCEPT !.staleness = 0] ELSE r

\* rpm.rs:33-35
is_stale(r) == r.staleness >= STALENESS_THRESHOLD

\* rpm.rs:37-39
state(r) == <<r.current, r.max, r.idle>>

\* rpm.rs:55-57
is_race_active(r) == r.is_race_active

\* (f32, f32, f32, bool) == (f32, f32, f32, bool): every component compares
\* equal
TupleEq(r, t) ==
    /\ F32Eq(r.current, t.current)
    /\ F32Eq(r.max, t.max)
    /\ F32Eq(r.idle, t.idle)
    /\ r.is_race_active = t.is_race_active

\* variant: a differing tuple is stored but the counter is left as it is
update_NoReset(r, t) ==
    IF TupleEq(r, t)
    THEN increment_staleness(r)
    ELSE [r EXCEPT !.current = t.current, !.max = t.max, !.idle = t.idle,
                   !.is_race_active = t.is_race_active]

\* rpm.rs:41-53, after the call of parse_rpm_data: t is the decoded tuple
update(r, t) ==
    IF TupleEq(r, t)
    THEN increment_staleness(r)
    ELSE [reset_staleness(r) EXCEPT !.current = t.current, !.max = t.max,
                                    !.idle = t.idle,
                                    !.is_race_active = t.is_race_active]

----------------------------------------------------------------------------
VARIABLES
    pc,                 \* position of the worker thread
    proc_exit,          \* 0: process running; 1: std::process::exit(1) called
    exit_flag,          \* the AtomicBool shared by foreground and worker
    should_exit,        \* SystemTray::should_exit
    settings,           \* SystemTray::settings (game_type, port)
    current_game_type,  \* worker local
    current_port,       \* worker local
    require_wheel,      \* cli.require_wheel
    found,              \* connect_and_bridge local
    backoff_i,          \* loop index of the backoff loop
    error,              \* the Err value connect_and_bridge returned last
    device_open,        \* a HidDevice handle exists
    listener_bound,     \* a UdpSocket exists
    device_present,     \* environment: a G27 is attached
    last_status,        \* last message sent on status_tx
    last_wheel,         \* last message sent on wheel_status_tx
    \* history variables
    fail_at,            \* the call whose failure ended the last session
    discoveries,        \* device enumerations so far (capped)
    elapsed,            \* ticks slept since the last failure was reported
    enum_since_err,     \* an enumeration happened since the last failure
    open_since_err,     \* a device open succeeded since the last failure
    raised_in,          \* where the worker was when exit_flag was raised
    ticks_after_raise,  \* ticks slept since exit_flag was raised (capped)
    snapshot,           \* the settings the worker read last under the lock
    session_cfg,        \* the arguments of the last call of connect_and_bridge
    rx_parity           \* datagrams received by this listener, modulo 2

worker_vars == <<pc, proc_exit, current_game_type, current_port, found,
                 backoff_i, error, device_open, listener_bound, last_status, last_wheel>>

history_vars == <<fail_at, discoveries, elapsed, enum_since_err, open_since_err,
                  raised_in, ticks_after_raise>>

fg_vars == <<exit_flag, should_exit, settings>>

\* One AppSettings value and its file, for the operations of settings.rs
VARIABLES
    app,                \* the AppSettings value the calls are made on
    app_file,           \* the settings last written to settings.toml
    app_before,         \* the value before the last call
    app_op,             \* the last call: "none", "load", "set_game_type", "set_port"
    app_arg_game,       \* the game passed to the last set_game_type
    app_calls           \* calls made so far

app_vars == <<app, app_file, app_before, app_op, app_arg_game, app_calls>>

\* One reading tracker and the datagrams fed to it
VARIABLES
    rpm,                \* the RPM value of rpm.rs
    rpm_before,         \* the RPM value before the last call
    rpm_op,             \* the last call: "none", "new", "update"
    data_in,            \* the buffer of the last update
    game_in,            \* the game whose parser the last update used
    decoded,            \* what parse_rpm_data did in the last update
    same_run,           \* updates in a row that decoded to the stored tuple
    identical_run,      \* updates in a row with the same bytes and parser
    panicked            \* a slice reached past the end of the buffer

rpm_vars == <<rpm, rpm_before, rpm_op, data_in, game_in, decoded, same_run,
              identical_run, panicked>>

\* One streaming session seen datagram by datagram
VARIABLES
    rx_last,            \* what became of the last receive: "none", "forwarded",
                        \* "dropped", "error"
    device_report       \* the tracker state of the last LED report written

stream_vars == <<rx_last, device_report>>

\* The mutexes shared by the worker, the event loop and the menu handler
VARIABLES
    holder,             \* for each mutex the thread that holds it, or "none"
    tpc,                \* for each thread its position
    menu_action,        \* the MenuAction the handler is serving
    changed,            \* the settings_changed flag
    quit_requested      \* the should_exit flag

lock_vars == <<holder, tpc, menu_action, changed, quit_requested>>

\* The start of the process: main and the frames of run
VARIABLES
    spc,                \* the position of the main thread
    cli_args,           \* the parsed command line
    run_args,           \* the arguments of the innermost call of run
    run_depth,          \* the number of frames of run on the stack
    console_hidden,     \* hide_console_window was called
    worker_spawned      \* thread::spawn of the bridge worker was called

start_vars == <<spc, cli_args, run_args, run_depth, console_hidden, worker_spawned>>

\* the variables of the pure parts, which the bridge never touches
pure_vars == <<app_vars, rpm_vars, stream_vars, lock_vars, start_vars>>

\* the configuration history of the worker
session_vars == <<snapshot, session_cfg, rx_parity>>

\* what no step of the supervisor, the foreground or the environment changes
static_vars == <<require_wheel, session_vars, pure_vars>>

vars == <<worker_vars, history_vars, fg_vars, static_vars, device_present>>

BackoffPcs == {"backoff_check", "backoff_sleep"}

\* the positions inside connect_and_bridge and read_telemetry_and_update
SessionPcs == {"disc_loop", "disc_sleep", "disc_refresh", "bind", "recv"}

\* Option<u16>::None of the command line's port
NoPort == 0

\* settings.rs:106-109: the command line's port if given, else the saved one
get_effective_port(s, cli) == IF cli = NoPort THEN s.port ELSE cli

\* no settings read yet, no call made yet
NoCfg == [game_type |-> "none", port |-> 0]

\* settings.rs:20-27
DefaultSettings == [game_type |-> "DirtRally2", port |-> default_port("DirtRally2")]

\* the settings operations are not exercised
AppIdle ==
    /\ app = DefaultSettings
    /\ app_file = DefaultSettings
    /\ app_before = DefaultSettings
    /\ app_op = "none"
    /\ app_arg_game = "none"
    /\ app_calls = 0

\* the bridge after main has called run and the worker thread was spawned
BridgeInit ==
    /\ pc = "loop_top"
    /\ proc_exit = 0
    /\ exit_flag = FALSE
    /\ should_exit = FALSE
    /\ settings \in [game_type : GameType, port : Ports]
    /\ current_game_type \in GameType
    /\ \E cli_port \in {NoPort} \cup Ports :
           current_port = get_effective_port(settings, cli_port)
    /\ require_wheel \in BOOLEAN
    /\ found = FALSE
    /\ backoff_i = 0
    /\ error = "none"
    /\ device_open = FALSE
    /\ listener_bound = FALSE
    /\ device_present \in BOOLEAN
    /\ last_status = "none"
    /\ last_wheel = <<FALSE, "none">>
    /\ fail_at = "none"
    /\ discoveries = 0
    /\ elapsed = 0
    /\ enum_since_err = FALSE
    /\ open_since_err = FALSE
    /\ raised_in = "none"
    /\ ticks_after_raise = 0
    /\ snapshot = NoCfg
    /\ session_cfg = NoCfg
    /\ rx_parity = 0

\* the bridge parked in one state, for the specifications of the pure parts
BridgeOff ==
    /\ BridgeInit
    /\ settings = DefaultSettings
    /\ current_game_type = DefaultSettings.game_type
    /\ current_port = DefaultSettings.port
    /\ ~require_wheel
    /\ ~device_present

\* an empty buffer
NoData == [len |-> 0, words |-> [a \in FieldOffsets |-> ZeroWord]]

\* the tracker is not exercised
RpmIdle ==
    /\ rpm = NewRPM
    /\ rpm_before = NewRPM
    /\ rpm_op = "none"
    /\ data_in = NoData
    /\ game_in = "none"
    /\ decoded = Outcome(Sentinel, {}, NoData)
    /\ same_run = 0
    /\ identical_run = 0
    /\ panicked = FALSE

\* no datagram received
StreamIdle ==
    /\ rx_last = "none"
    /\ device_report = NewRPM

\* systray.rs:36-46: the registry of menu actions and the three fields of
\* SystemTray behind a Mutex
Mutexes == {"MENU_ACTIONS", "settings", "settings_changed", "should_exit"}

Threads == {"worker", "loop", "menu"}

\* no thread holds or wants a mutex
LockIdle ==
    /\ holder = [m \in Mutexes |-> "none"]
    /\ tpc = [worker |-> "w_top", loop |-> "l_top", menu |-> "m_idle"]
    /\ menu_action = "none"
    /\ changed = FALSE
    /\ quit_requested = FALSE

\* no command line given yet, run not called
NoCli == [game |-> "absent", port |-> NoPort, console |-> FALSE, require_wheel |-> FALSE]

NoArgs == [game_type |-> "none", port |-> 0, keep_console |-> FALSE,
           require_wheel |-> FALSE]

\* the start of the process is not exercised
StartIdle ==
    /\ spc = "idle"
    /\ cli_args = NoCli
    /\ run_args = NoArgs
    /\ run_depth = 0
    /\ console_hidden = FALSE
    /\ worker_spawned = FALSE

Init == BridgeInit /\ AppIdle /\ RpmIdle /\ StreamIdle /\ LockIdle /\ StartIdle

----------------------------------------------------------------------------
(* Helpers *)

Running == proc_exit = 0

\* one sleep of 100 ms has passed
Tick ==
    /\ elapsed' = Min(elapsed + 1, ClockCap)
    /\ ticks_after_raise' = IF exit_flag THEN Min(ticks_after_raise + 1, MaxAfter)
                                         ELSE ticks_after_raise

\* the wait the worker is in, if any
WaitOf(p) ==
    IF p \in BackoffPcs THEN "backoff"
    ELSE IF p = "disc_sleep" THEN "discovery"
    ELSE "other"

----------------------------------------------------------------------------
(* Worker thread: the closure of thread::spawn in run *)

\* loop { if exit_flag.load() { break; } ...
LoopTop ==
    /\ Running /\ pc = "loop_top"
    /\ pc' = IF exit_flag THEN "done" ELSE "check_settings"
    /\ UNCHANGED <<proc_exit, current_game_type, current_port, found,
                   backoff_i, error, device_open, listener_bound, last_status,
                   last_wheel>>
    /\ UNCHANGED <<history_vars, fg_vars, static_vars, device_present>>

\* if let Ok(settings) = tray_settings_clone.lock() { ... }
\* variant: only a change of the game is taken over, a change of the port alone
\* is not
CheckSettings_GameOnly ==
    /\ Running /\ pc = "check_settings"
    /\ IF settings.game_type # current_game_type
       THEN /\ current_game_type' = settings.game_type
            /\ current_port' = settings.port
            /\ last_status' = "Switched"
       ELSE UNCHANGED <<current_game_type, current_port, last_status>>
    /\ pc' = "connect"
    /\ UNCHANGED <<proc_exit, found, backoff_i, error, device_open,
                   listener_bound, last_wheel>>
    /\ UNCHANGED <<history_vars, fg_vars, require_wheel, pure_vars, device_present>>
    /\ UNCHANGED <<session_cfg, rx_parity>>
    /\ snapshot' = settings

\* main.rs:288-299: the settings are read under the lock and replace the
\* worker's game and port when either differs
CheckSettings ==
    /\ Running /\ pc = "check_settings"
    /\ IF settings.game_type # current_game_type \/ settings.port # current_port
       THEN /\ current_game_type' = settings.game_type
            /\ current_port' = settings.port
            /\ last_status' = "Switched"
       ELSE UNCHANGED <<current_game_type, current_port, last_status>>
    /\ pc' = "connect"
    /\ UNCHANGED <<proc_exit, found, backoff_i, error, device_open,
                   listener_bound, last_wheel>>
    /\ UNCHANGED <<history_vars, fg_vars, require_wheel, pure_vars, device_present>>
    /\ UNCHANGED <<session_cfg, rx_parity>>
    /\ snapshot' = settings

\* variant: require_wheel is ignored
ConnectAndBridge_NoPolicy(hid_ok) ==
    /\ Running /\ pc = "connect"
    /\ IF ~hid_ok
       THEN /\ last_wheel' = <<FALSE, "Searching...">>
            /\ error' = FromHidError
            /\ fail_at' = "hid_new"
            /\ pc' = "err"
            /\ UNCHANGED <<found, enum_since_err, discoveries>>
       ELSE /\ found' = device_present
            /\ enum_since_err' = TRUE
            /\ discoveries' = Min(discoveries + 1, MaxDiscoveries)
            /\ last_wheel' = IF device_present THEN <<FALSE, "Searching...">>
                                               ELSE <<FALSE, "Not found">>
            /\ pc' = "disc_loop"
            /\ UNCHANGED <<error, fail_at>>
    /\ UNCHANGED <<proc_exit, current_game_type, current_port, backoff_i,
                   device_open, listener_bound, last_status>>
    /\ UNCHANGED <<elapsed, open_since_err, raised_in, ticks_after_raise>>
    /\ UNCHANGED <<fg_vars, require_wheel, pure_vars, device_present>>
    /\ UNCHANGED <<snapshot, rx_parity>>
    /\ session_cfg' = [game_type |-> current_game_type, port |-> current_port]

\* connect_and_bridge up to its loop: the "Searching..." update, HidApi::new()?,
\* the first enumeration, and the exit under require_wheel
ConnectAndBridge(hid_ok) ==
    /\ Running /\ pc = "connect"
    /\ IF ~hid_ok
       THEN /\ last_wheel' = <<FALSE, "Searching...">>
            /\ error' = FromHidError
            /\ fail_at' = "hid_new"
            /\ pc' = "err"
            /\ UNCHANGED <<found, proc_exit, enum_since_err, discoveries>>
       ELSE /\ found' = device_present
            /\ enum_since_err' = TRUE
            /\ discoveries' = Min(discoveries + 1, MaxDiscoveries)
            /\ UNCHANGED <<error, fail_at>>
            /\ IF device_present
               THEN /\ last_wheel' = <<FALSE, "Searching...">>
                    /\ pc' = "disc_loop"
                    /\ UNCHANGED proc_exit
               ELSE /\ last_wheel' = <<FALSE, "Not found">>
                    /\ IF require_wheel
                       THEN proc_exit' = 1 /\ pc' = pc
                       ELSE proc_exit' = proc_exit /\ pc' = "disc_loop"
    /\ UNCHANGED <<current_game_type, current_port, backoff_i, device_open,
                   listener_bound, last_status>>
    /\ UNCHANGED <<elapsed, open_since_err, raised_in, ticks_after_raise>>
    /\ UNCHANGED <<fg_vars, require_wheel, pure_vars, device_present>>
    /\ UNCHANGED <<snapshot, rx_parity>>
    /\ session_cfg' = [game_type |-> current_game_type, port |-> current_port]

\* loop { if found { if let Ok(device) = hid.open(..) { ...return read_..(device) }
\*        else { "Connection failed" } }  sleep(5 s) ...
DiscLoop(open_ok) ==
    /\ Running /\ pc = "disc_loop"
    /\ open_ok => device_present
    /\ IF found /\ open_ok
       THEN /\ device_open' = TRUE
            /\ last_wheel' = <<TRUE, "none">>
            /\ open_since_err' = TRUE
            /\ pc' = "bind"
       ELSE /\ last_wheel' = IF found THEN <<FALSE, "Connection failed">> ELSE last_wheel
            /\ pc' = "disc_sleep"
            /\ UNCHANGED <<device_open, open_since_err>>
    /\ UNCHANGED <<proc_exit, current_game_type, current_port, found,
                   backoff_i, error, listener_bound, last_status>>
    /\ UNCHANGED <<fail_at, discoveries, elapsed, enum_since_err, raised_in,
                   ticks_after_raise>>
    /\ UNCHANGED <<fg_vars, static_vars, device_present>>

\* sleep(Duration::from_secs(5)): one call, never interrupted
DiscSleep ==
    /\ Running /\ pc = "disc_sleep"
    /\ pc' = "disc_refresh"
    /\ elapsed' = Min(elapsed + DiscoverySleepTicks, ClockCap)
    /\ ticks_after_raise' = IF exit_flag
                            THEN Min(ticks_after_raise + DiscoverySleepTicks, MaxAfter)
                            ELSE ticks_after_raise
    /\ UNCHANGED <<proc_exit, current_game_type, current_port, found,
                   backoff_i, error, device_open, listener_bound, last_status,
                   last_wheel>>
    /\ UNCHANGED <<fail_at, discoveries, enum_since_err, open_since_err,
                   raised_in>>
    /\ UNCHANGED <<fg_vars, static_vars, device_present>>

\* hid.refresh_devices()?; found = device_connected(&hid);
DiscRefresh(hid_ok) ==
    /\ Running /\ pc = "disc_refresh"
    /\ IF hid_ok
       THEN /\ found' = device_present
            /\ enum_since_err' = TRUE
            /\ discoveries' = Min(discoveries + 1, MaxDiscoveries)
            /\ pc' = "disc_loop"
            /\ UNCHANGED <<error, fail_at>>
       ELSE /\ error' = FromHidError
            /\ fail_at' = "refresh"
            /\ pc' = "err"
            /\ UNCHANGED <<found, enum_since_err, discoveries>>
    /\ UNCHANGED <<proc_exit, current_game_type, current_port, backoff_i,
                   device_open, listener_bound, last_status, last_wheel>>
    /\ UNCHANGED <<elapsed, open_since_err, raised_in,
                   ticks_after_raise>>
    /\ UNCHANGED <<fg_vars, static_vars, device_present>>

\* variant: a failed bind leaves the device handle open
Bind_KeepsDevice(bind_ok) ==
    /\ Running /\ pc = "bind"
    /\ IF bind_ok
       THEN /\ listener_bound' = TRUE
            /\ pc' = "recv"
            /\ UNCHANGED <<error, fail_at, device_open>>
       ELSE /\ error' = FromIoError
            /\ fail_at' = "bind"
            /\ pc' = "err"
            /\ UNCHANGED <<listener_bound, device_open>>
    /\ UNCHANGED <<proc_exit, current_game_type, current_port, found,
                   backoff_i, last_status, last_wheel>>
    /\ UNCHANGED <<discoveries, elapsed, enum_since_err, open_since_err,
                   raised_in, ticks_after_raise>>
    /\ UNCHANGED <<fg_vars, static_vars, device_present>>

\* read_telemetry_and_update up to its loop: UdpSocket::bind on 127.0.0.1:port;
\* on failure the function returns and drops the device handle it owns
Bind(bind_ok) ==
    /\ Running /\ pc = "bind"
    /\ IF bind_ok
       THEN /\ listener_bound' = TRUE
            /\ pc' = "recv"
            /\ UNCHANGED <<error, fail_at, device_open>>
       ELSE /\ error' = FromIoError
            /\ fail_at' = "bind"
            /\ device_open' = FALSE
            /\ pc' = "err"
            /\ UNCHANGED listener_bound
    /\ UNCHANGED <<proc_exit, current_game_type, current_port, found,
                   backoff_i, last_status, last_wheel>>
    /\ UNCHANGED <<discoveries, elapsed, enum_since_err, open_since_err,
                   raised_in, ticks_after_raise>>
    /\ UNCHANGED <<fg_vars, static_vars, device_present>>

\* variant: a datagram that is too small ends the receive loop with Ok(()),
\* which the worker answers with its Ok arm (main.rs:323-326)
RecvDatagram_SmallReturnsOk(size_ok, leds_ok) ==
    /\ Running /\ pc = "recv"
    /\ IF size_ok /\ ~leds_ok
       THEN /\ error' = FromHidError
            /\ fail_at' = "leds"
            /\ device_open' = FALSE
            /\ listener_bound' = FALSE
            /\ pc' = "err"
            /\ UNCHANGED last_status
       ELSE IF ~size_ok
       THEN /\ device_open' = FALSE
            /\ listener_bound' = FALSE
            /\ last_status' = "Bridge stopped unexpectedly, restarting..."
            /\ pc' = "loop_top"
            /\ UNCHANGED <<error, fail_at>>
       ELSE UNCHANGED <<error, fail_at, device_open, listener_bound, pc, last_status>>
    /\ UNCHANGED <<proc_exit, current_game_type, current_port, found,
                   backoff_i, last_wheel>>
    /\ UNCHANGED <<discoveries, elapsed, enum_since_err, open_since_err,
                   raised_in, ticks_after_raise>>
    /\ UNCHANGED <<fg_vars, require_wheel, pure_vars, device_present>>
    /\ UNCHANGED <<snapshot, session_cfg>>
    /\ rx_parity' = IF size_ok THEN (IF leds_ok THEN 1 - rx_parity ELSE 0) ELSE 0

\* Ok(received_size): a datagram; leds.update(..)? when it is large enough,
\* dropped with a message otherwise
RecvDatagram(size_ok, leds_ok) ==
    /\ Running /\ pc = "recv"
    /\ IF size_ok /\ ~leds_ok
       THEN /\ error' = FromHidError
            /\ fail_at' = "leds"
            /\ device_open' = FALSE
            /\ listener_bound' = FALSE
            /\ pc' = "err"
       ELSE UNCHANGED <<error, fail_at, device_open, listener_bound, pc>>
    /\ UNCHANGED <<proc_exit, current_game_type, current_port, found,
                   backoff_i, last_status, last_wheel>>
    /\ UNCHANGED <<discoveries, elapsed, enum_since_err, open_since_err,
                   raised_in, ticks_after_raise>>
    /\ UNCHANGED <<fg_vars, require_wheel, pure_vars, device_present>>
    /\ UNCHANGED <<snapshot, session_cfg>>
    /\ rx_parity' = IF size_ok /\ ~leds_ok THEN 0 ELSE 1 - rx_parity

\* variant: a receive error is reported as a lost device
RecvError_AsDeviceLost ==
    /\ Running /\ pc = "recv"
    /\ error' = "G27ConnectionLostError"
    /\ fail_at' = "recv"
    /\ device_open' = FALSE
    /\ listener_bound' = FALSE
    /\ pc' = "err"
    /\ UNCHANGED <<proc_exit, current_game_type, current_port, found,
                   backoff_i, last_status, last_wheel>>
    /\ UNCHANGED <<discoveries, elapsed, enum_since_err, open_since_err,
                   raised_in, ticks_after_raise>>
    /\ UNCHANGED <<fg_vars, require_wheel, pure_vars, device_present>>
    /\ UNCHANGED <<snapshot, session_cfg>>
    /\ rx_parity' = 0

\* variant: the socket outlives the failed session
RecvError_KeepsListener ==
    /\ Running /\ pc = "recv"
    /\ error' = FromIoError
    /\ fail_at' = "recv"
    /\ device_open' = FALSE
    /\ UNCHANGED listener_bound
    /\ pc' = "err"
    /\ UNCHANGED <<proc_exit, current_game_type, current_port, found,
                   backoff_i, last_status, last_wheel>>
    /\ UNCHANGED <<discoveries, elapsed, enum_since_err, open_since_err,
                   raised_in, ticks_after_raise>>
    /\ UNCHANGED <<fg_vars, require_wheel, pure_vars, device_present>>
    /\ UNCHANGED <<snapshot, session_cfg>>
    /\ rx_parity' = 0

\* Err(e) => { println!("# UDP receive error"); return Err(e.into()); }
RecvError ==
    /\ Running /\ pc = "recv"
    /\ error' = FromIoError
    /\ fail_at' = "recv"
    /\ device_open' = FALSE
    /\ listener_bound' = FALSE
    /\ pc' = "err"
    /\ UNCHANGED <<proc_exit, current_game_type, current_port, found,
                   backoff_i, last_status, last_wheel>>
    /\ UNCHANGED <<discoveries, elapsed, enum_since_err, open_since_err,
                   raised_in, ticks_after_raise>>
    /\ UNCHANGED <<fg_vars, require_wheel, pure_vars, device_present>>
    /\ UNCHANGED <<snapshot, session_cfg>>
    /\ rx_parity' = 0

\* variant: the Err arm reports the failure on the status channel only
HandleError_NoWheelUpdate ==
    /\ Running /\ pc = "err"
    /\ IF error = "DR2UdpSocketError"
       THEN /\ UNCHANGED last_wheel
            /\ last_status' = "UDP Socket Error - retrying in 5 seconds..."
       ELSE /\ UNCHANGED last_wheel
            /\ last_status' = "G27 connection lost - retrying in 2 seconds..."
    /\ backoff_i' = 0
    /\ found' = FALSE
    /\ pc' = "backoff_check"
    /\ elapsed' = 0
    /\ enum_since_err' = FALSE
    /\ open_since_err' = FALSE
    /\ UNCHANGED <<proc_exit, current_game_type, current_port, error,
                   device_open, listener_bound>>
    /\ UNCHANGED <<fail_at, discoveries, raised_in, ticks_after_raise>>
    /\ UNCHANGED <<fg_vars, static_vars, device_present>>

\* Err(error) => { let msg = match error {..}; status_tx.send(msg); for _ in 0..50
HandleError ==
    /\ Running /\ pc = "err"
    /\ IF error = "DR2UdpSocketError"
       THEN /\ last_wheel' = <<FALSE, "UDP Error">>
            /\ last_status' = "UDP Socket Error - retrying in 5 seconds..."
       ELSE /\ last_wheel' = <<FALSE, "Disconnected">>
            /\ last_status' = "G27 connection lost - retrying in 2 seconds..."
    /\ backoff_i' = 0
    /\ found' = FALSE
    /\ pc' = "backoff_check"
    /\ elapsed' = 0
    /\ enum_since_err' = FALSE
    /\ open_since_err' = FALSE
    /\ UNCHANGED <<proc_exit, current_game_type, current_port, error,
                   device_open, listener_bound>>
    /\ UNCHANGED <<fail_at, discoveries, raised_in, ticks_after_raise>>
    /\ UNCHANGED <<fg_vars, static_vars, device_present>>

\* variant: the backoff loop sleeps without looking at the exit flag
BackoffCheck_NoPoll ==
    /\ Running /\ pc = "backoff_check"
    /\ backoff_i' = backoff_i /\ pc' = "backoff_sleep"
    /\ UNCHANGED <<proc_exit, current_game_type, current_port, found,
                   error, device_open, listener_bound, last_status,
                   last_wheel>>
    /\ UNCHANGED <<history_vars, fg_vars, static_vars, device_present>>

\* if exit_flag_clone.load(Ordering::Relaxed) { return; }
BackoffCheck ==
    /\ Running /\ pc = "backoff_check"
    /\ IF exit_flag
       THEN backoff_i' = 0 /\ pc' = "done"
       ELSE backoff_i' = backoff_i /\ pc' = "backoff_sleep"
    /\ UNCHANGED <<proc_exit, current_game_type, current_port, found,
                   error, device_open, listener_bound, last_status,
                   last_wheel>>
    /\ UNCHANGED <<history_vars, fg_vars, static_vars, device_present>>

\* variant: the backoff loop runs one iteration short
BackoffSleep_OneShort ==
    /\ Running /\ pc = "backoff_sleep"
    /\ Tick
    /\ IF backoff_i + 1 < BackoffTicks - 1
       THEN backoff_i' = backoff_i + 1 /\ pc' = "backoff_check"
       ELSE backoff_i' = 0 /\ pc' = "loop_top"
    /\ UNCHANGED <<proc_exit, current_game_type, current_port, found, error,
                   device_open, listener_bound, last_status, last_wheel>>
    /\ UNCHANGED <<fail_at, discoveries, enum_since_err, open_since_err,
                   raised_in>>
    /\ UNCHANGED <<fg_vars, static_vars, device_present>>

\* sleep(Duration::from_millis(100)); and the loop header of for _ in 0..50
BackoffSleep ==
    /\ Running /\ pc = "backoff_sleep"
    /\ Tick
    /\ IF backoff_i + 1 < BackoffTicks
       THEN backoff_i' = backoff_i + 1 /\ pc' = "backoff_check"
       ELSE backoff_i' = 0 /\ pc' = "loop_top"
    /\ UNCHANGED <<proc_exit, current_game_type, current_port, found, error,
                   device_open, listener_bound, last_status, last_wheel>>
    /\ UNCHANGED <<fail_at, discoveries, enum_since_err, open_since_err,
                   raised_in>>
    /\ UNCHANGED <<fg_vars, static_vars, device_present>>

Worker ==
    \/ LoopTop
    \/ CheckSettings
    \/ \E hid_ok \in BOOLEAN : ConnectAndBridge(hid_ok)
    \/ \E open_ok \in BOOLEAN : DiscLoop(open_ok)
    \/ DiscSleep
    \/ \E hid_ok \in BOOLEAN : DiscRefresh(hid_ok)
    \/ \E bind_ok \in BOOLEAN : Bind(bind_ok)
    \/ \E size_ok \in BOOLEAN, leds_ok \in BOOLEAN : RecvDatagram(size_ok, leds_ok)
    \/ RecvError
    \/ HandleError
    \/ BackoffCheck
    \/ BackoffSleep

----------------------------------------------------------------------------
(* Foreground: the event loop closure of run and the menu event handler *)

\* one run of the closure passed to event_loop.run
EventLoopIter(close_requested) ==
    /\ Running /\ ~exit_flag
    /\ exit_flag' = (close_requested \/ should_exit)
    /\ IF close_requested \/ should_exit
       THEN /\ raised_in' = WaitOf(pc)
            /\ ticks_after_raise' = 0
       ELSE UNCHANGED <<raised_in, ticks_after_raise>>
    /\ UNCHANGED <<should_exit, settings>>
    /\ UNCHANGED <<fail_at, discoveries, elapsed, enum_since_err, open_since_err>>
    /\ UNCHANGED <<worker_vars, static_vars, device_present>>

\* MenuAction::Quit
MenuQuit ==
    /\ Running /\ ~exit_flag
    /\ should_exit' = TRUE
    /\ UNCHANGED <<exit_flag, settings>>
    /\ UNCHANGED <<worker_vars, history_vars, static_vars, device_present>>

\* MenuAction::SelectDirtRally, MenuAction::SelectForzaHorizon
MenuSelectGame(g) ==
    /\ Running /\ ~exit_flag
    /\ settings' = set_game_type(settings, g)
    /\ UNCHANGED <<exit_flag, should_exit>>
    /\ UNCHANGED <<worker_vars, history_vars, static_vars, device_present>>

\* MenuAction::ReloadSettings: *settings = AppSettings::load()
MenuReloadSettings(file) ==
    /\ Running /\ ~exit_flag
    /\ settings' = file
    /\ UNCHANGED <<exit_flag, should_exit>>
    /\ UNCHANGED <<worker_vars, history_vars, static_vars, device_present>>

Foreground ==
    \/ \E close_requested \in BOOLEAN : EventLoopIter(close_requested)
    \/ MenuQuit
    \/ \E g \in GameType : MenuSelectGame(g)
    \/ \E file \in [game_type : GameType, port : Ports] : MenuReloadSettings(file)

----------------------------------------------------------------------------
(* Environment: the wheel is plugged in or pulled out *)

Plug ==
    /\ Running /\ ~device_present
    /\ device_present' = TRUE
    /\ UNCHANGED <<worker_vars, history_vars, fg_vars, static_vars>>

Unplug ==
    /\ Running /\ device_present
    /\ device_present' = FALSE
    /\ UNCHANGED <<worker_vars, history_vars, fg_vars, static_vars>>

Environment == Plug \/ Unplug

----------------------------------------------------------------------------
Next == Worker \/ Foreground \/ Environment

Spec == Init /\ [][Next]_vars

\* the user leaves the settings alone: no game is selected in the menu and the
\* settings file is not reloaded
NextUntouched ==
    \/ Worker
    \/ \E close_requested \in BOOLEAN : EventLoopIter(close_requested)
    \/ MenuQuit
    \/ Environment

CliSpec == Init /\ [][NextUntouched]_vars

\* the operating system schedules the worker thread
FairSpec == Init /\ [][Next]_vars /\ WF_vars(Worker)

----------------------------------------------------------------------------
(* Properties of the bridge supervisor *)

UdpStatus == "UDP Socket Error - retrying in 5 seconds..."
LostStatus == "G27 connection lost - retrying in 2 seconds..."

\* C1: require_wheel affects only the very first discovery of the process:
\* the process is terminated only by the first device enumeration; a later
\* enumeration that finds no device never terminates it.
C1_PolicyOnlyAtStartup == proc_exit = 1 => discoveries = 1

\* C2: when the exit flag is raised while the worker is in the backoff wait,
\* the worker sleeps at most the tick in progress, starts no discovery and
\* no bind, and can only leave towards the end of its loop.
C2_BackoffCancelled ==
    raised_in = "backoff" =>
        /\ ticks_after_raise <= 1
        /\ pc \in BackoffPcs \cup {"loop_top", "done"}
        /\ pc = "loop_top" => ticks_after_raise = 1

\* the flag was raised during a sleep of the backoff, long before its end,
\* and the worker has left its loop after that one tick
C2_Witness ==
    /\ raised_in = "backoff" /\ pc = "done" /\ ticks_after_raise = 1
    /\ elapsed < BackoffTicks - 1

\* C3: every wait of the supervisor longer than one tick polls the exit flag
\* every tick: after the flag is raised in the backoff wait or in the wait
\* between two enumerations, the worker sleeps at most one more tick.
C3_EveryWaitPolls ==
    raised_in \in {"backoff", "discovery"} => ticks_after_raise <= 1

\* C4: once the exit flag is set the worker eventually leaves its loop,
\* unless it is in the receive loop (or the process has ended).
C4_WorkerExits == exit_flag ~> (pc = "done" \/ pc = "recv" \/ proc_exit = 1)

\* C5: the bind attempt that follows a bind failure happens no earlier than
\* BackoffTicks ticks (5 s) after the failure was reported.
C5_BindRetryAfter5s == (pc = "bind" /\ fail_at = "bind") => elapsed >= BackoffTicks

\* the next bind attempt after a bind failure, exactly 5 s later
C5_Witness == pc = "bind" /\ fail_at = "bind" /\ elapsed = BackoffTicks

\* C6: the backoff after a DeviceLost failure lasts 2 s (20 ticks), the one
\* after a SocketBind failure 5 s (50 ticks).
C6_DistinctBackoffs ==
    (pc = "loop_top" /\ fail_at # "none") =>
        /\ error = "G27ConnectionLostError" => elapsed = DeviceLostAnnouncedTicks
        /\ error = "DR2UdpSocketError" => elapsed = SocketErrorAnnouncedTicks

C8_RetryFromBind ==
    /\ (pc \in BackoffPcs /\ fail_at = "bind") => device_open
    /\ (pc = "bind" /\ fail_at = "bind") => (~enum_since_err /\ ~open_since_err)

\* C8 as amended: a bind failure releases the device handle, and every bind
\* attempt after a failure of either kind follows a new enumeration and a
\* new open of the device.
C8_RetryFromSearching ==
    /\ (pc \in BackoffPcs \cup {"err"}) => (~device_open /\ ~listener_bound)
    /\ (pc = "bind" /\ fail_at # "none") => (enum_since_err /\ open_since_err)

\* the bind attempt after a bind failure, reached through enumeration and open
C8_Witness == pc = "bind" /\ fail_at = "bind" /\ enum_since_err /\ open_since_err

\* C9: every failed session is followed by its status message and a backoff,
\* the worker leaves its loop only on shutdown, and once a session has failed
\* the process is never terminated by a later discovery.
C9_Recoverable ==
    /\ pc \in BackoffPcs => last_status \in {UdpStatus, LostStatus}
    /\ pc = "done" => exit_flag
    /\ (proc_exit = 1 /\ fail_at # "none") => discoveries = 1

\* the first enumeration of the process under require_wheel finds no device
FirstEnumerationMisses ==
    /\ pc = "connect" /\ discoveries = 0 /\ discoveries' = 1
    /\ require_wheel /\ ~device_present

\* C10: under require_wheel, a first enumeration that finds no device ends
\* the process with status 1 at once: no sleep, no second enumeration, and
\* before it no device handle was opened and no listener bound; nothing
\* happens after the exit.
C10_StrictStartupExit ==
    /\ [](discoveries = 0 => (~device_open /\ ~listener_bound /\ ~open_since_err))
    /\ [][FirstEnumerationMisses =>
            /\ proc_exit' = 1
            /\ UNCHANGED <<elapsed, device_open, listener_bound, open_since_err>>]_vars
    /\ [][proc_exit = 0]_vars

\* the process has ended at its first enumeration
C10_Witness ==
    /\ proc_exit = 1 /\ require_wheel /\ discoveries = 1
    /\ last_wheel = <<FALSE, "Not found">> /\ ~device_open

----
\* The configuration boundary (C11..C13)

\* the game and port the worker holds
Current == [game_type |-> current_game_type, port |-> current_port]

\* C11: every call of connect_and_bridge is made with the game and port the
\* worker read from the shared settings at the top of that iteration of the
\* outer loop: after the read the worker's game and port are the ones read,
\* and as long as the call runs its arguments are the ones read.
C11_SessionUsesSnapshot ==
    /\ pc = "connect" => Current = snapshot
    /\ pc \in SessionPcs => /\ session_cfg = snapshot
                            /\ session_cfg = Current

\* a later iteration of the outer loop, after a failure, took over a changed
\* value and its session is receiving
C11_Witness ==
    /\ pc = "recv" /\ fail_at # "none" /\ last_status = "Switched"
    /\ session_cfg = snapshot /\ session_cfg = settings

\* C12: a change of the shared settings made while a session is receiving
\* (device open, listener bound) is followed, eventually, by the teardown of
\* that session: its listener is closed.
C12_ChangeTearsDown ==
    (pc = "recv" /\ device_open /\ listener_bound /\ settings # session_cfg)
        ~> ~listener_bound

\* C13: the worker starts with the effective port, which is the port of the
\* command line when one was given; when the user changes no setting the
\* worker keeps that port, so that every bind of the listener, the first one
\* included, uses it.
C13_CliPortKept == [][current_port' = current_port]_vars

----
(* AppSettings: load, set_game_type, set_port (settings.rs) *)

\* ports a settings file may hold: the two defaults and two other values
SamplePorts == Ports \cup {5300, 20778}

AppSettingsValues == [game_type : GameType, port : SamplePorts]

MaxCalls == 3

InitSettings ==
    /\ BridgeOff
    /\ app \in AppSettingsValues
    /\ app_file = app
    /\ app_before = app
    /\ app_op = "none"
    /\ app_arg_game = "none"
    /\ app_calls = 0
    /\ RpmIdle
    /\ StreamIdle
    /\ LockIdle
    /\ StartIdle

\* settings.rs:78-84 as used by the setters: a failed save is reported and
\* leaves the file as it was
save(s, save_ok) == IF save_ok THEN s ELSE app_file

\* settings.rs:46-75: the file's contents, or the defaults when the file is
\* missing or unreadable
Load(readable) ==
    /\ app_calls < MaxCalls
    /\ app' = IF readable THEN app_file ELSE DefaultSettings
    /\ app_before' = app
    /\ app_op' = "load"
    /\ app_arg_game' = "none"
    /\ app_calls' = app_calls + 1
    /\ UNCHANGED <<app_file, worker_vars, history_vars, fg_vars, require_wheel,
                   session_vars, rpm_vars,
                   stream_vars, lock_vars, start_vars, device_present>>

\* settings.rs:86-96
SetGameType(g, save_ok) ==
    /\ app_calls < MaxCalls
    /\ app' = set_game_type(app, g)
    /\ app_file' = save(app', save_ok)
    /\ app_before' = app
    /\ app_op' = "set_game_type"
    /\ app_arg_game' = g
    /\ app_calls' = app_calls + 1
    /\ UNCHANGED <<worker_vars, history_vars, fg_vars, require_wheel,
                   session_vars, rpm_vars,
                   stream_vars, lock_vars, start_vars, device_present>>

\* settings.rs:98-104
SetPort(p, save_ok) ==
    /\ app_calls < MaxCalls
    /\ app' = [app EXCEPT !.port = p]
    /\ app_file' = save(app', save_ok)
    /\ app_before' = app
    /\ app_op' = "set_port"
    /\ app_arg_game' = "none"
    /\ app_calls' = app_calls + 1
    /\ UNCHANGED <<worker_vars, history_vars, fg_vars, require_wheel,
                   session_vars, rpm_vars,
                   stream_vars, lock_vars, start_vars, device_present>>

NextSettings ==
    \/ \E readable \in BOOLEAN : Load(readable)
    \/ \E g \in GameType, save_ok \in BOOLEAN : SetGameType(g, save_ok)
    \/ \E p \in SamplePorts, save_ok \in BOOLEAN : SetPort(p, save_ok)

SettingsSpec == InitSettings /\ [][NextSettings]_vars

\* C14: set_game_type(g) sets the game to g; the port becomes g's default
\* port when the port before the call was the default port of the game
\* selected before the call, and is left as it was otherwise.
C14_PortFollowsGame ==
    app_op = "set_game_type" =>
        /\ app.game_type = app_arg_game
        /\ app.port = IF app_before.port = default_port(app_before.game_type)
                      THEN default_port(app_arg_game)
                      ELSE app_before.port

----
(* RPM::new and RPM::update on sample datagrams (rpm.rs, telemetry.rs) *)

\* little-endian bytes of the f32 values 0.0, -0.0, 800.0, 1500.0, 7000.0,
\* -1.0, 1.0 and of a quiet NaN
W_zero == <<0, 0, 0, 0>>
W_negzero == <<0, 0, 0, 128>>
W_800 == <<0, 0, 72, 68>>
W_1500 == <<0, 128, 187, 68>>
W_7000 == <<0, 192, 218, 69>>
W_neg1 == <<0, 0, 128, 191>>
W_one_f32 == <<0, 0, 128, 63>>
W_nan == <<0, 0, 192, 127>>

\* bytes of the i32 values 1 (little-endian) and 16777216 (the bytes of 1 in
\* big-endian order)
W_one_i32 == <<1, 0, 0, 0>>
W_one_be == <<0, 0, 0, 1>>

Currents == {W_zero, W_negzero, W_1500, W_neg1, W_nan}

\* (current, max, idle) of a datagram: every sample of the current RPM with
\* a plausible maximum and idle RPM, and one RPM with other maxima and idle
Fields ==
    {<<c, W_7000, W_800>> : c \in Currents}
    \cup {<<W_1500, W_zero, W_800>>, <<W_1500, W_nan, W_800>>,
          <<W_1500, W_7000, W_zero>>}

\* IsRaceOn values other than 1: 0 and 16777216
OffFlags == {W_zero, W_one_be}

\* lengths below both declared sizes, and a length above both
ShortLens == {0, 3}
LongLen == 300

Packet(len, w0, w8, w12, w16, w148, w252, w256) ==
    [len |-> len,
     words |-> [a \in FieldOffsets |->
                  CASE a = 0 -> w0 [] a = 8 -> w8 [] a = 12 -> w12
                    [] a = 16 -> w16 [] a = 148 -> w148 [] a = 252 -> w252
                    [] OTHER -> w256]]

\* datagrams as DiRT Rally 2.0 sends them: the RPM fields at 148, 252, 256
DirtRally2Packets ==
    {Packet(len, W_one_f32, W_one_f32, W_one_f32, W_one_f32,
            f[1], f[2], f[3]) :
        len \in {expected_packet_size("DirtRally2"), LongLen}, f \in Fields}
    \cup
    {Packet(len, W_one_f32, W_one_f32, W_one_f32, W_one_f32,
            W_1500, W_7000, W_800) :
        len \in ShortLens \cup {expected_packet_size("DirtRally2") - 1}}

\* datagrams as Forza Horizon 5 sends them: IsRaceOn at 0, the RPM fields at
\* 8, 12, 16
ForzaHorizon5Packets ==
    {Packet(len, W_one_i32, f[2], f[3], f[1], W_one_f32, W_one_f32, W_one_f32) :
        len \in {expected_packet_size("ForzaHorizon5"), LongLen}, f \in Fields}
    \cup
    {Packet(len, w0, W_7000, W_800, W_1500, W_one_f32, W_one_f32, W_one_f32) :
        len \in {expected_packet_size("ForzaHorizon5"), LongLen}, w0 \in OffFlags}
    \cup
    {Packet(len, w0, W_7000, W_800, W_1500, W_one_f32, W_one_f32, W_one_f32) :
        len \in ShortLens \cup {expected_packet_size("ForzaHorizon5") - 1},
        w0 \in {W_one_i32, W_zero}}

Packets == DirtRally2Packets \cup ForzaHorizon5Packets

\* the stored tuple
Reading(r) ==
    [current |-> r.current, max |-> r.max, idle |-> r.idle,
     is_race_active |-> r.is_race_active]

\* two f32 are the same value: the same bits, or both zero
SameValue(x, y) == x = y \/ (IsZero(x) /\ IsZero(y))

\* the decoded tuple t is the tuple stored in r
SameTuple(r, t) ==
    /\ SameValue(r.current, t.current)
    /\ SameValue(r.max, t.max)
    /\ SameValue(r.idle, t.idle)
    /\ r.is_race_active = t.is_race_active

InitTelemetry == BridgeOff /\ AppIdle /\ RpmIdle /\ StreamIdle /\ LockIdle /\ StartIdle

\* rpm.rs:15-19: a session creates its tracker
NewTracker ==
    /\ ~panicked
    /\ rpm' = NewRPM
    /\ rpm_before' = rpm
    /\ rpm_op' = "new"
    /\ same_run' = 0
    /\ identical_run' = 0
    /\ UNCHANGED <<data_in, game_in, decoded, panicked>>
    /\ UNCHANGED <<worker_vars, history_vars, fg_vars, require_wheel,
                   session_vars, app_vars, stream_vars,
                   lock_vars, start_vars, device_present>>

\* rpm.rs:41-53: the buffer is decoded by the game's parser and the tuple is
\* compared with the stored one; a panic of the parser ends the thread
Update(g, data) ==
    /\ ~panicked
    /\ LET d == parse_rpm_data(g, data)
       IN  /\ decoded' = d
           /\ panicked' = d.panic
           /\ rpm' = IF d.panic THEN rpm ELSE update(rpm, d.reading)
           /\ same_run' = IF ~d.panic /\ SameTuple(rpm, d.reading)
                          THEN Min(same_run + 1, STALENESS_THRESHOLD + 1)
                          ELSE 0
    /\ rpm_before' = rpm
    /\ rpm_op' = "update"
    /\ identical_run' = IF rpm_op = "update" /\ data = data_in /\ g = game_in
                        THEN Min(identical_run + 1, STALENESS_THRESHOLD + 1)
                        ELSE 1
    /\ data_in' = data
    /\ game_in' = g
    /\ UNCHANGED <<worker_vars, history_vars, fg_vars, require_wheel,
                   session_vars, app_vars, stream_vars,
                   lock_vars, start_vars, device_present>>

NextTelemetry ==
    \/ NewTracker
    \/ \E g \in GameType, data \in Packets : Update(g, data)

TelemetrySpec == InitTelemetry /\ [][NextTelemetry]_vars

----
(* Properties of the reading tracker and of the decoders *)

\* C15: the staleness counter is always within 0..STALENESS_THRESHOLD, and an
\* update that repeats the stored tuple when the counter is at the threshold
\* leaves it at the threshold.
C15_StalenessBounded ==
    /\ rpm.staleness \in 0..STALENESS_THRESHOLD
    /\ (/\ rpm_op = "update"
        /\ rpm_before.staleness = STALENESS_THRESHOLD
        /\ SameTuple(rpm_before, decoded.reading))
       => rpm.staleness = STALENESS_THRESHOLD

\* a repeat past the threshold
C15_Witness ==
    /\ rpm_op = "update" /\ same_run = STALENESS_THRESHOLD + 1
    /\ rpm_before.staleness = STALENESS_THRESHOLD
    /\ rpm.staleness = STALENESS_THRESHOLD

\* C16: after N updates in a row that decoded to the stored tuple, counted
\* from a counter of 0, the counter is N (at most the threshold), the stored
\* tuple is the one before the update, and is_stale() holds exactly from the
\* THRESHOLD-th repeat on.
C16_RepeatsCount ==
    /\ rpm.staleness = Min(same_run, STALENESS_THRESHOLD)
    /\ same_run > 0 => Reading(rpm) = Reading(rpm_before)
    /\ is_stale(rpm) <=> same_run >= STALENESS_THRESHOLD

\* C17: an update whose decoded tuple differs from the stored one sets the
\* counter to 0 and stores all four decoded fields; state() and
\* is_race_active() return them.
C17_DifferingResets ==
    (rpm_op = "update" /\ ~SameTuple(rpm_before, decoded.reading)) =>
        /\ rpm.staleness = 0
        /\ ~is_stale(rpm)
        /\ Reading(rpm) = decoded.reading
        /\ state(rpm) = <<decoded.reading.current, decoded.reading.max,
                          decoded.reading.idle>>
        /\ is_race_active(rpm) = decoded.reading.is_race_active

\* a stale tracker receives a new reading
C17_Witness ==
    /\ rpm_op = "update" /\ is_stale(rpm_before)
    /\ ~SameTuple(rpm_before, decoded.reading)
    /\ ~is_race_active(rpm_before) /\ is_race_active(rpm)
    /\ rpm.staleness = 0

\* C18: a buffer shorter than the declared size of the game decodes to the
\* sentinel without any byte being read and without a panic; for a buffer of
\* at least the declared size every slice taken ends within the declared size.
C18_ShortBufferSentinel ==
    rpm_op = "update" =>
        /\ ~panicked /\ ~decoded.panic
        /\ data_in.len < expected_packet_size(game_in) =>
               decoded.reading = Sentinel /\ decoded.reads = {}
        /\ data_in.len >= expected_packet_size(game_in) =>
               \A a \in decoded.reads : a + 4 <= expected_packet_size(game_in)

\* a buffer one byte short whose IsRaceOn and RPM bytes are set
C18_Witness ==
    /\ rpm_op = "update" /\ game_in = "ForzaHorizon5"
    /\ data_in.len = 231 /\ data_in.words[0] = W_one_i32
    /\ data_in.words[16] = W_1500
    /\ decoded.reading = Sentinel /\ ~panicked

\* C19: with the Forza Horizon 5 parser, a buffer whose first four bytes are
\* not the little-endian bytes of 1 decodes to the sentinel, whatever its
\* other bytes and its length.
C19_RaceOffSentinel ==
    (rpm_op = "update" /\ game_in = "ForzaHorizon5"
        /\ data_in.words[0] # <<1, 0, 0, 0>>)
    => decoded.reading = Sentinel

\* a full datagram with RPM values whose flag holds the bytes of 1 in the
\* wrong order
C19_Witness ==
    /\ rpm_op = "update" /\ game_in = "ForzaHorizon5"
    /\ data_in.len = 232 /\ data_in.words[0] = <<0, 0, 0, 1>>
    /\ data_in.words[8] = W_7000 /\ data_in.words[16] = W_1500
    /\ decoded.reading = Sentinel

\* C20: with the DiRT Rally 2.0 parser and a buffer of at least 264 bytes,
\* current RPM is the f32 at bytes 148..152, max RPM the one at 252..256 and
\* idle RPM the one at 256..260; race_active holds exactly when max RPM is
\* positive (of the samples: 7000.0 and 1.0) and current RPM is not negative
\* (of the samples: 0.0, -0.0, 1500.0 and 1.0).
C20_DirtRally2Layout ==
    (rpm_op = "update" /\ game_in = "DirtRally2" /\ data_in.len >= 264) =>
        /\ decoded.reading.current = f32_from_byte_slice(data_in.words[148])
        /\ decoded.reading.max = f32_from_byte_slice(data_in.words[252])
        /\ decoded.reading.idle = f32_from_byte_slice(data_in.words[256])
        /\ decoded.reading.is_race_active <=>
               /\ data_in.words[252] \in {W_7000, W_one_f32}
               /\ data_in.words[148] \in {W_zero, W_negzero, W_1500, W_one_f32}

\* a datagram with current RPM -0.0: the race is active
C20_Witness ==
    /\ rpm_op = "update" /\ game_in = "DirtRally2" /\ data_in.len = 264
    /\ data_in.words[148] = W_negzero /\ data_in.words[252] = W_7000
    /\ data_in.words[256] = W_800
    /\ decoded.reading.is_race_active
    /\ decoded.reading.current = [sign |-> 1, exp |-> 0, frac |-> 0]

\* C21: with the Forza Horizon 5 parser, a buffer of at least 232 bytes whose
\* first four bytes are the little-endian bytes of 1 decodes to max RPM from
\* bytes 8..12, idle RPM from bytes 12..16 and current RPM from bytes 16..20,
\* and race_active is true whatever the RPM values are.
C21_ForzaLayout ==
    (rpm_op = "update" /\ game_in = "ForzaHorizon5" /\ data_in.len >= 232
        /\ data_in.words[0] = <<1, 0, 0, 0>>)
    => /\ decoded.reading.max = f32_from_byte_slice(data_in.words[8])
       /\ decoded.reading.idle = f32_from_byte_slice(data_in.words[12])
       /\ decoded.reading.current = f32_from_byte_slice(data_in.words[16])
       /\ decoded.reading.is_race_active

\* a datagram whose current RPM is a NaN: the race counts as active
C21_Witness ==
    /\ rpm_op = "update" /\ game_in = "ForzaHorizon5" /\ data_in.len = 232
    /\ data_in.words[0] = W_one_i32 /\ data_in.words[16] = W_nan
    /\ data_in.words[8] = W_7000 /\ data_in.words[12] = W_800
    /\ decoded.reading.is_race_active
    /\ decoded.reading.current.exp = 255
    /\ decoded.reading.max = [sign |-> 0, exp |-> 139, frac |-> 5947392]

----
(* One streaming session, datagram by datagram (main.rs:73-96) *)

\* the bridge right after a successful bind, with either game on its default
\* port, a new tracker and no datagram received yet
StreamStart ==
    /\ pc = "recv" /\ proc_exit = 0
    /\ exit_flag = FALSE /\ should_exit = FALSE
    /\ settings \in {[game_type |-> g, port |-> default_port(g)] : g \in GameType}
    /\ current_game_type = settings.game_type
    /\ current_port = settings.port
    /\ require_wheel = FALSE /\ device_present = TRUE
    /\ found = TRUE /\ backoff_i = 0 /\ error = "none"
    /\ device_open = TRUE /\ listener_bound = TRUE
    /\ last_status = "none" /\ last_wheel = <<TRUE, "none">>
    /\ fail_at = "none" /\ discoveries = 1 /\ elapsed = 0
    /\ enum_since_err = TRUE /\ open_since_err = TRUE
    /\ raised_in = "none" /\ ticks_after_raise = 0
    /\ snapshot = settings /\ session_cfg = settings /\ rx_parity = 0

\* the datagrams of a session: every sample length and flag, with current
\* RPM 0.0 or 1500.0, max RPM 7000.0 and idle RPM 800.0
StreamPackets ==
    {p \in Packets :
        /\ {p.words[16], p.words[148]} \subseteq {W_zero, W_1500, W_one_f32}
        /\ {p.words[8], p.words[252]} \subseteq {W_7000, W_one_f32}
        /\ {p.words[12], p.words[256]} \subseteq {W_800, W_one_f32}}

InitStream == StreamStart /\ AppIdle /\ RpmIdle /\ StreamIdle /\ LockIdle /\ StartIdle

\* LEDS::update: the tracker is updated with the buffer and the parser; the
\* outcome of the write of the LED report is write_ok
LedsUpdate(g, data, write_ok) ==
    /\ LET d == parse_rpm_data(g, data)
       IN  /\ decoded' = d
           /\ panicked' = d.panic
           /\ rpm' = IF d.panic THEN rpm ELSE update(rpm, d.reading)
           /\ same_run' = IF ~d.panic /\ SameTuple(rpm, d.reading)
                          THEN Min(same_run + 1, STALENESS_THRESHOLD + 1)
                          ELSE 0
    /\ rpm_before' = rpm
    /\ rpm_op' = "update"
    /\ identical_run' = IF rpm_op = "update" /\ data = data_in /\ g = game_in
                        THEN Min(identical_run + 1, STALENESS_THRESHOLD + 1)
                        ELSE 1
    /\ game_in' = g
    /\ device_report' = IF write_ok THEN rpm' ELSE device_report

\* variant: every datagram is handed to the LED driver, whatever its size
StreamRecv_NoSizeCheck(data, write_ok) ==
    /\ Running /\ pc = "recv"
    /\ data_in' = data
    /\ LedsUpdate(current_game_type, data, write_ok)
    /\ rx_last' = "forwarded"
    /\ IF write_ok
       THEN UNCHANGED <<error, fail_at, device_open, listener_bound, pc>>
       ELSE /\ error' = FromHidError
            /\ fail_at' = "leds"
            /\ device_open' = FALSE
            /\ listener_bound' = FALSE
            /\ pc' = "err"
    /\ rx_parity' = IF write_ok THEN 1 - rx_parity ELSE 0
    /\ UNCHANGED <<proc_exit, current_game_type, current_port, found,
                   backoff_i, last_status, last_wheel>>
    /\ UNCHANGED <<discoveries, elapsed, enum_since_err, open_since_err,
                   raised_in, ticks_after_raise>>
    /\ UNCHANGED <<fg_vars, require_wheel, app_vars, lock_vars, start_vars, device_present,
                   snapshot, session_cfg>>

\* main.rs:83-89: socket.recv returned data.len bytes
StreamRecv(data, write_ok) ==
    /\ Running /\ pc = "recv"
    /\ data_in' = data
    /\ IF data.len >= expected_packet_size(current_game_type)
       THEN /\ LedsUpdate(current_game_type, data, write_ok)
            /\ rx_last' = "forwarded"
            /\ IF write_ok
               THEN UNCHANGED <<error, fail_at, device_open, listener_bound, pc>>
               ELSE /\ error' = FromHidError
                    /\ fail_at' = "leds"
                    /\ device_open' = FALSE
                    /\ listener_bound' = FALSE
                    /\ pc' = "err"
            /\ rx_parity' = IF write_ok THEN 1 - rx_parity ELSE 0
       ELSE /\ rx_last' = "dropped"
            /\ rx_parity' = 1 - rx_parity
            /\ UNCHANGED <<rpm, rpm_before, rpm_op, game_in, decoded, same_run,
                           identical_run, panicked, device_report>>
            /\ UNCHANGED <<error, fail_at, device_open, listener_bound, pc>>
    /\ UNCHANGED <<proc_exit, current_game_type, current_port, found,
                   backoff_i, last_status, last_wheel>>
    /\ UNCHANGED <<discoveries, elapsed, enum_since_err, open_since_err,
                   raised_in, ticks_after_raise>>
    /\ UNCHANGED <<fg_vars, require_wheel, app_vars, lock_vars, start_vars, device_present,
                   snapshot, session_cfg>>

\* main.rs:91-94: socket.recv returned an error
StreamRecvError ==
    /\ Running /\ pc = "recv"
    /\ rx_last' = "error"
    /\ error' = FromIoError
    /\ fail_at' = "recv"
    /\ device_open' = FALSE
    /\ listener_bound' = FALSE
    /\ pc' = "err"
    /\ rx_parity' = 0
    /\ UNCHANGED <<proc_exit, current_game_type, current_port, found,
                   backoff_i, last_status, last_wheel>>
    /\ UNCHANGED <<discoveries, elapsed, enum_since_err, open_since_err,
                   raised_in, ticks_after_raise>>
    /\ UNCHANGED <<fg_vars, require_wheel, app_vars, lock_vars, start_vars, rpm_vars, device_report,
                   device_present, snapshot, session_cfg>>

NextStream ==
    \/ \E data \in StreamPackets, write_ok \in BOOLEAN : StreamRecv(data, write_ok)
    \/ StreamRecvError

StreamSpec == InitStream /\ [][NextStream]_vars

\* C22: a received datagram is handed to the LED driver, and through it to the
\* tracker, exactly when its size is at least the declared packet size of the
\* session's game; a smaller one changes neither the tracker nor the device
\* nor the session, and the worker receives again.
C22_SmallDropped ==
    [][(pc = "recv" /\ rx_last' # "error") =>
          IF data_in'.len >= expected_packet_size(current_game_type)
          THEN /\ rx_last' = "forwarded"
               /\ rpm_op' = "update"
               /\ rpm' = update(rpm, parse_rpm_data(current_game_type,
                                                    data_in').reading)
          ELSE /\ rx_last' = "dropped"
               /\ UNCHANGED <<rpm, device_report, error, device_open,
                              listener_bound>>
               /\ pc' = "recv"]_vars

\* a datagram one byte short arrived after the tracker had been updated; the
\* session is still receiving
C22_Witness ==
    /\ rx_last = "dropped" /\ pc = "recv"
    /\ current_game_type = "DirtRally2" /\ data_in.len = 263
    /\ rpm.staleness > 0 /\ device_report = rpm
    /\ device_open /\ listener_bound

----
(* The mutexes of the tray and the three threads that lock them
   (systray.rs:114-163, 286-319; main.rs:288-299, 351-361) *)

\* everything but the mutexes and the positions of the three threads
nonlock_vars ==
    <<worker_vars, history_vars, fg_vars, require_wheel, session_vars,
      app_vars, rpm_vars, stream_vars, start_vars, device_present>>

\* systray.rs:33: the actions a menu item stands for
MenuActions ==
    {"Quit", "About", "SelectDirtRally", "SelectForzaHorizon", "OpenSettings",
     "ReloadSettings"}

\* mutex.lock(): the thread waits at position from until the mutex is free
Acquire(t, m, from, to) ==
    /\ tpc[t] = from
    /\ holder[m] = "none"
    /\ holder' = [holder EXCEPT ![m] = t]
    /\ tpc' = [tpc EXCEPT ![t] = to]

\* the guard of the mutex is dropped
Release(t, m, from, to) ==
    /\ tpc[t] = from
    /\ holder[m] = t
    /\ holder' = [holder EXCEPT ![m] = "none"]
    /\ tpc' = [tpc EXCEPT ![t] = to]

\* main.rs:288: the worker locks the settings at the top of its loop
WorkerLock ==
    /\ Acquire("worker", "settings", "w_top", "w_snapshot")
    /\ UNCHANGED <<menu_action, changed, quit_requested, nonlock_vars>>

\* variant: the guard lives until the end of the iteration, the session and
\* the backoff included
WorkerUnlock_KeepsLock ==
    /\ tpc["worker"] = "w_snapshot"
    /\ tpc' = [tpc EXCEPT !["worker"] = "w_session"]
    /\ UNCHANGED <<holder, menu_action, changed, quit_requested, nonlock_vars>>

\* main.rs:289-299: game and port are copied and the guard is dropped at the
\* end of the if-let block
WorkerUnlock ==
    /\ Release("worker", "settings", "w_snapshot", "w_session")
    /\ UNCHANGED <<menu_action, changed, quit_requested, nonlock_vars>>

\* main.rs:301-327: connect_and_bridge and the wait after it, with no mutex
WorkerSession ==
    /\ tpc["worker"] = "w_session"
    /\ tpc' = [tpc EXCEPT !["worker"] = "w_top"]
    /\ UNCHANGED <<holder, menu_action, changed, quit_requested, nonlock_vars>>

WorkerThread == WorkerLock \/ WorkerUnlock \/ WorkerSession

\* main.rs:352, systray.rs:290-291: settings_changed() locks the flag
LoopLockChanged ==
    /\ Acquire("loop", "settings_changed", "l_top", "l_changed")
    /\ UNCHANGED <<menu_action, changed, quit_requested, nonlock_vars>>

\* systray.rs:292-294: the flag is read and reset, the guard is dropped
LoopReadChanged ==
    /\ Release("loop", "settings_changed", "l_changed",
               IF changed THEN "l_want_settings" ELSE "l_want_exit")
    /\ changed' = FALSE
    /\ UNCHANGED <<menu_action, quit_requested, nonlock_vars>>

\* main.rs:354, systray.rs:309: update_menu_display locks the settings
LoopLockSettings ==
    /\ Acquire("loop", "settings", "l_want_settings", "l_menu")
    /\ UNCHANGED <<menu_action, changed, quit_requested, nonlock_vars>>

\* systray.rs:310-318: the menu texts are set, the guard is dropped
LoopUnlockSettings ==
    /\ Release("loop", "settings", "l_menu", "l_want_exit")
    /\ UNCHANGED <<menu_action, changed, quit_requested, nonlock_vars>>

\* main.rs:358, systray.rs:286-288: should_exit() locks the flag
LoopLockExit ==
    /\ Acquire("loop", "should_exit", "l_want_exit", "l_exit")
    /\ UNCHANGED <<menu_action, changed, quit_requested, nonlock_vars>>

\* main.rs:358-361: the flag is read; the event loop exits when it is set
LoopReadExit ==
    /\ Release("loop", "should_exit", "l_exit",
               IF quit_requested THEN "l_done" ELSE "l_top")
    /\ UNCHANGED <<menu_action, changed, quit_requested, nonlock_vars>>

LoopThread ==
    \/ LoopLockChanged \/ LoopReadChanged
    \/ LoopLockSettings \/ LoopUnlockSettings
    \/ LoopLockExit \/ LoopReadExit

\* systray.rs:114-115: the user picks a menu item while the event loop runs
MenuEvent(a) ==
    /\ tpc["menu"] = "m_idle" /\ tpc["loop"] # "l_done"
    /\ menu_action' = a
    /\ tpc' = [tpc EXCEPT !["menu"] = "m_want_actions"]
    /\ UNCHANGED <<holder, changed, quit_requested, nonlock_vars>>

\* systray.rs:117-118: the registry is locked for the whole handler
MenuLockActions ==
    /\ Acquire("menu", "MENU_ACTIONS", "m_want_actions", "m_dispatch")
    /\ UNCHANGED <<menu_action, changed, quit_requested, nonlock_vars>>

\* systray.rs:119-120: match action
MenuDispatch ==
    /\ tpc["menu"] = "m_dispatch"
    /\ tpc' = [tpc EXCEPT !["menu"] =
                 CASE menu_action = "Quit" -> "m_want_exit"
                   [] menu_action \in {"About", "OpenSettings"} -> "m_dialog"
                   [] OTHER -> "m_want_settings"]
    /\ UNCHANGED <<holder, menu_action, changed, quit_requested, nonlock_vars>>

\* systray.rs:122
MenuLockExit ==
    /\ Acquire("menu", "should_exit", "m_want_exit", "m_quit")
    /\ UNCHANGED <<menu_action, changed, quit_requested, nonlock_vars>>

\* systray.rs:123-124
MenuSetQuit ==
    /\ Release("menu", "should_exit", "m_quit", "m_unlock_actions")
    /\ quit_requested' = TRUE
    /\ UNCHANGED <<menu_action, changed, nonlock_vars>>

\* systray.rs:126-128, 147-149: the about dialog, or the settings file is
\* opened in an editor
MenuDialog ==
    /\ tpc["menu"] = "m_dialog"
    /\ tpc' = [tpc EXCEPT !["menu"] = "m_unlock_actions"]
    /\ UNCHANGED <<holder, menu_action, changed, quit_requested, nonlock_vars>>

\* systray.rs:130, 138, 151: the settings are locked; what follows under the
\* guard is set_game_type, which writes the settings file (settings.rs:92),
\* or AppSettings::load, which reads it
MenuLockSettings ==
    /\ Acquire("menu", "settings", "m_want_settings", "m_file")
    /\ UNCHANGED <<menu_action, changed, quit_requested, nonlock_vars>>

\* systray.rs:131-132, 139-140, 152-154: the file was written or read, the
\* guard is dropped
MenuFileDone ==
    /\ Release("menu", "settings", "m_file", "m_want_changed")
    /\ UNCHANGED <<menu_action, changed, quit_requested, nonlock_vars>>

\* systray.rs:133, 141, 155
MenuLockChanged ==
    /\ Acquire("menu", "settings_changed", "m_want_changed", "m_changed")
    /\ UNCHANGED <<menu_action, changed, quit_requested, nonlock_vars>>

\* systray.rs:134-135, 142-143, 156-157
MenuSetChanged ==
    /\ Release("menu", "settings_changed", "m_changed", "m_unlock_actions")
    /\ changed' = TRUE
    /\ UNCHANGED <<menu_action, quit_requested, nonlock_vars>>

\* systray.rs:160-161: the guard of the registry is dropped
MenuUnlockActions ==
    /\ Release("menu", "MENU_ACTIONS", "m_unlock_actions", "m_idle")
    /\ menu_action' = "none"
    /\ UNCHANGED <<changed, quit_requested, nonlock_vars>>

\* the handler once it was called
MenuHandler ==
    \/ MenuLockActions \/ MenuDispatch
    \/ MenuLockExit \/ MenuSetQuit
    \/ MenuDialog
    \/ MenuLockSettings \/ MenuFileDone
    \/ MenuLockChanged \/ MenuSetChanged
    \/ MenuUnlockActions

NextLock ==
    \/ WorkerThread
    \/ LoopThread
    \/ \E a \in MenuActions : MenuEvent(a)
    \/ MenuHandler

InitLock == BridgeOff /\ AppIdle /\ RpmIdle /\ StreamIdle /\ LockIdle /\ StartIdle

LockSpec == InitLock /\ [][NextLock]_vars

\* A thread blocked in lock() gets the mutex once it is free, a thread that
\* holds a guard runs on and drops it; a session of the worker may last
\* forever and the user need not pick a menu item.
LockFairSpec ==
    /\ InitLock /\ [][NextLock]_vars
    /\ SF_vars(WorkerLock \/ WorkerUnlock)
    /\ SF_vars(LoopThread)
    /\ SF_vars(MenuHandler)

\* the positions at which a thread is inside lock(), and the mutex it wants
Wanted(p) ==
    CASE p \in {"w_top", "l_want_settings", "m_want_settings"} -> "settings"
      [] p \in {"l_top", "m_want_changed"} -> "settings_changed"
      [] p \in {"l_want_exit", "m_want_exit"} -> "should_exit"
      [] p = "m_want_actions" -> "MENU_ACTIONS"
      [] OTHER -> "none"

\* t waits for a mutex that another thread holds
Blocked(t) ==
    /\ Wanted(tpc[t]) # "none"
    /\ holder[Wanted(tpc[t])] # "none"

\* the positions of blocking I/O: the session and the waits of the worker,
\* the file operations of the menu handler
IoPcs == {"w_session", "m_file"}

\* C23: no thread is at a blocking I/O call (device discovery or open, bind,
\* receive, sleep, reading or writing the settings file) while it holds the
\* mutex of the settings.
C23_NoIoUnderSettingsLock ==
    \A t \in Threads : tpc[t] \in IoPcs => holder["settings"] # t

\* C29: no thread waits for a mutex held by a thread that itself waits for a
\* mutex, and every thread that asks for a mutex gets it.
C29_NoDeadlock ==
    /\ [](\A t \in Threads :
            Blocked(t) => ~Blocked(holder[Wanted(tpc[t])]))
    /\ \A t \in Threads :
            (Wanted(tpc[t]) # "none") ~> (Wanted(tpc[t]) = "none")

\* the worker waits for the settings while the menu handler, which holds the
\* registry too, writes the settings file, and the event loop waits for the
\* flag the handler will set
C29_Witness ==
    /\ tpc["worker"] = "w_top" /\ Blocked("worker")
    /\ tpc["menu"] = "m_file"
    /\ holder["MENU_ACTIONS"] = "menu" /\ holder["settings"] = "menu"
    /\ tpc["loop"] = "l_want_settings" /\ Blocked("loop")

----
(* Ownership of the device handle and of the listener *)

\* C24: the device handle and the listener belong to one session: a handle is
\* opened only when none is open and a listener is bound only when none is
\* bound, a listener exists only while the handle is open, and outside the
\* session's bind and receive positions, in particular before the backoff and
\* the next discovery, both are released.
C24_SessionOwnsResources ==
    /\ [](/\ listener_bound => device_open
          /\ pc = "bind" => (device_open /\ ~listener_bound)
          /\ pc = "recv" => (device_open /\ listener_bound)
          /\ pc \notin {"bind", "recv"} => (~device_open /\ ~listener_bound))
    /\ [][(device_open' /\ pc = "disc_loop") => ~device_open]_vars
    /\ [][(listener_bound' /\ pc = "bind") => ~listener_bound]_vars

\* a second session holds both after the first one failed while receiving
C24_Witness ==
    /\ pc = "recv" /\ fail_at = "recv" /\ discoveries = 2
    /\ device_open /\ listener_bound

----
(* Unchanged datagrams *)

\* C25: after THRESHOLD + 1 updates in a row with byte-identical datagrams and
\* the same parser the tracker is stale, whatever the bytes of the RPM fields.
C25_IdenticalPacketsStale ==
    identical_run >= STALENESS_THRESHOLD + 1 => is_stale(rpm)

----
(* The start of the process: main and run up to the spawn of the worker *)

\* the frames of run the stack of the main thread holds
MaxRunDepth == 3

\* main.rs:26-45 with the outcome of GameType::parse_game_name for --game:
\* "absent" without the option, "unknown" for None, the game for Some
CliValues ==
    [game : {"absent", "unknown"} \cup GameType, port : {NoPort} \cup Ports,
     console : BOOLEAN, require_wheel : BOOLEAN]

\* the bridge parked; the command line is parsed, main is about to load the
\* settings
InitStartup ==
    /\ BridgeOff /\ AppIdle /\ RpmIdle /\ StreamIdle /\ LockIdle
    /\ spc = "main"
    /\ cli_args \in CliValues
    /\ run_args = NoArgs
    /\ run_depth = 0
    /\ console_hidden = FALSE
    /\ worker_spawned = FALSE

startup_rest ==
    <<worker_vars, history_vars, fg_vars, require_wheel, session_vars, app_vars,
      rpm_vars, stream_vars, lock_vars, device_present>>

\* main.rs:226-246: load the settings, apply --game and --port, call run
Main(file) ==
    /\ spc = "main"
    /\ IF cli_args.game = "unknown"
       THEN /\ spc' = "returned"
            /\ UNCHANGED <<run_args, run_depth>>
       ELSE LET s == IF cli_args.game = "absent" THEN file
                     ELSE set_game_type(file, cli_args.game)
            IN  /\ run_args' = [game_type |-> s.game_type,
                                port |-> get_effective_port(s, cli_args.port),
                                keep_console |-> cli_args.console,
                                require_wheel |-> cli_args.require_wheel]
                /\ run_depth' = 1
                /\ spc' = "run_entry"
    /\ UNCHANGED <<cli_args, console_hidden, worker_spawned, startup_rest>>

\* main.rs:253-258
RunEntry ==
    /\ spc = "run_entry"
    /\ console_hidden' = (console_hidden \/ ~run_args.keep_console)
    /\ spc' = "tray_new"
    /\ UNCHANGED <<cli_args, run_args, run_depth, worker_spawned, startup_rest>>

\* main.rs:261-269: SystemTray::new(); on Err run calls itself with
\* _keep_console = false; a call the stack has no room for ends the process
TrayNew(ok) ==
    /\ spc = "tray_new"
    /\ IF ok
       THEN /\ spc' = "spawn"
            /\ UNCHANGED <<run_args, run_depth>>
       ELSE IF run_depth < MaxRunDepth
       THEN /\ run_args' = [run_args EXCEPT !.keep_console = FALSE]
            /\ run_depth' = run_depth + 1
            /\ spc' = "run_entry"
       ELSE /\ spc' = "aborted"
            /\ UNCHANGED <<run_args, run_depth>>
    /\ UNCHANGED <<cli_args, console_hidden, worker_spawned, startup_rest>>

\* main.rs:271-279: the flags, the channels and thread::spawn
SpawnWorker ==
    /\ spc = "spawn"
    /\ worker_spawned' = TRUE
    /\ spc' = "serving"
    /\ UNCHANGED <<cli_args, run_args, run_depth, console_hidden, startup_rest>>

NextStartup ==
    \/ \E file \in AppSettingsValues : Main(file)
    \/ RunEntry
    \/ \E ok \in BOOLEAN : TrayNew(ok)
    \/ SpawnWorker

StartupSpec == InitStartup /\ [][NextStartup]_vars

\* the main thread runs whenever it can take a step
StartupFairSpec == StartupSpec /\ WF_vars(NextStartup)

\* C26: once a creation of the tray has failed the worker thread is
\* eventually started.
C26_FallbackStartsWorker == (run_depth > 1) ~> worker_spawned

----
(* The result of a session *)

\* the worker is inside connect_and_bridge or read_telemetry_and_update
InSession == pc \in SessionPcs \cup {"connect"}

\* C27: connect_and_bridge returns to the worker only with an error of one of
\* the two kinds, so the worker never announces "Bridge stopped unexpectedly,
\* restarting...", the message of the Ok arm of its match.
C27_SessionEndsWithError ==
    /\ [](last_status # "Bridge stopped unexpectedly, restarting...")
    /\ [][(InSession /\ ~InSession')
              => (pc' = "err" /\ error' \in DR2G27Error /\ fail_at' # "none")]_vars

\* sessions have ended at every place a session can end at
C27_Witness ==
    /\ pc = "err"
    /\ fail_at = "recv"
    /\ error = "DR2UdpSocketError"
    /\ discoveries = MaxDiscoveries

----
(* The connectivity updates on the wheel status channel *)

\* what the steps of the worker send: (true, None) only in the step that opens
\* the device handle; "Searching..." (followed by "Not found" when the first
\* enumeration misses the wheel) in the step that enters connect_and_bridge;
\* a (false, ..) update in the step that takes the worker from the failed
\* session into the backoff
SendsFollowSession ==
    /\ (last_wheel'[1] /\ last_wheel' # last_wheel) => (~device_open /\ device_open')
    /\ (pc = "connect" /\ (pc' # pc \/ proc_exit' # proc_exit))
           => last_wheel' \in {<<FALSE, "Searching...">>, <<FALSE, "Not found">>}
    /\ (pc = "err" /\ pc' # pc) => (pc' = "backoff_check" /\ ~last_wheel'[1])

\* C28 as stated: the updates follow the session, and whenever no device
\* handle is open the last update sent says not connected.
C28_UpdatesFollowHandle ==
    /\ [][SendsFollowSession]_vars
    /\ [](~device_open => ~last_wheel[1])

\* C28, amended: the updates follow the session, and whenever no device handle
\* is open the last update sent says not connected, except between the return
\* of a failed session and the update the worker's Err arm sends for it.
C28_UpdatesFollowHandleOutsideErrArm ==
    /\ [][SendsFollowSession]_vars
    /\ []((~device_open /\ pc # "err") => ~last_wheel[1])

\* a session that had the wheel open has failed and the backoff has begun
C28_Witness ==
    /\ pc = "backoff_sleep"
    /\ fail_at = "leds"
    /\ ~device_open
    /\ last_wheel = <<FALSE, "Disconnected">>

====
